---- MODULE Spec2Model ----
(***************************************************************************)
(* createFileMap of the SandpackEditor component: the reduction of the     *)
(* children of a <SandpackEditor> (markdown code blocks rendered by MDX)   *)
(* into the `files` mapping handed to Sandpack.                            *)
(*                                                                         *)
(* Strings that the code takes apart (the metastring, the file path) are   *)
(* sequences of text chunks; a chunk is a piece of text holding no         *)
(* separator, SP is the space character U+0020 and TAB the tab character.  *)
(* Two such sequences denote the same string iff they are equal.           *)
(***************************************************************************)
EXTENDS Integers, Sequences, FiniteSets, TLC

VARIABLES children, pc, idx, result, error, history

vars == <<children, pc, idx, result, error, history>>

-----------------------------------------------------------------------------
(* Bounds of the model. *)

MaxChildren == 3
MaxMetaLen == 5
MaxPassChildren == 2
MaxPasses == 2

-----------------------------------------------------------------------------
(* Text. *)

SP == " "
TAB == "\t"
SLASH == "/"

Alphabet == {"App.tsx", "util.ts", "hidden", "active", "foo", SP, TAB}

Strings(n) == UNION {[1..k -> Alphabet] : k \in 0..n}

IsWs(x) == x \in {SP, TAB}

\* The metastrings MDX hands over: the text of the fence line after the
\* language tag, without the whitespace around it, of up to n pieces.
FenceMetas(n) ==
    {m \in Strings(n) : m # <<>> /\ ~IsWs(m[1]) /\ ~IsWs(m[Len(m)])}

-----------------------------------------------------------------------------
(* The children React.Children.toArray hands to the reducer. *)

NoClass == "undefined"

ClassNames ==
    {NoClass, "language-js", "language-ts", "language-tsx", "language-css",
     "language-py"}

Codes == {"c1", "c2"}

NoMeta == [defined |-> FALSE, value |-> <<>>]

Meta(m) == [defined |-> TRUE, value |-> m]

\* A string child: it has no props.
TextNode ==
    [kind |-> "text", mdxType |-> "undefined", className |-> NoClass,
     metastring |-> NoMeta, code |-> "text"]

\* An element that MDX rendered from something else than a code fence.
OtherNode ==
    [kind |-> "element", mdxType |-> "p", className |-> NoClass,
     metastring |-> NoMeta, code |-> "text"]

\* <pre><code className=cls metastring=ms>code</code></pre>
PreNode(cls, ms, code) ==
    [kind |-> "element", mdxType |-> "pre", className |-> cls,
     metastring |-> ms, code |-> code]

\* JavaScript truthiness of props.metastring: undefined and "" are falsy.
Truthy(ms) == ms.defined /\ ms.value # <<>>

-----------------------------------------------------------------------------
(* String.prototype.split(" "): cut at every single space character. *)

RECURSIVE Split(_)
Split(s) ==
    IF \A i \in 1..Len(s) : s[i] # SP
    THEN <<s>>
    ELSE LET i == CHOOSE k \in 1..Len(s) :
                      s[k] = SP /\ \A j \in 1..(k - 1) : s[j] # SP
         IN  <<SubSeq(s, 1, i - 1)>> \o Split(SubSeq(s, i + 1, Len(s)))

\* Slip: only the first parameter is looked at.
IncludesFirst(params, token) == Len(params) > 0 /\ params[1] = token

\* Array.prototype.includes
Includes(params, token) == \E i \in 1..Len(params) : params[i] = token

\* const [name, ...params] = props.metastring.split(" ")
FileName(m) == Head(Split(m))

Params(m) == Tail(Split(m))

\* Slips: the name is searched as well; only the last parameter counts.
FileHiddenAnyToken(m) == Includes(Split(m), <<"hidden">>)

FileHiddenLast(m) ==
    Len(Params(m)) > 0 /\ Params(m)[Len(Params(m))] = <<"hidden">>

FileHidden(m) == Includes(Params(m), <<"hidden">>)

\* Slip: the name is searched as well.
FileActiveAnyToken(m) == Includes(Split(m), <<"active">>)

FileActive(m) == Includes(Params(m), <<"active">>)

\* Slips of the lookup: ts mapped by its own extension; a default path
\* in place of the throw.
DefaultPathTs(cls) ==
    IF cls = "language-js" THEN <<SLASH, "App.js">>
    ELSE IF cls = "language-ts" THEN <<SLASH, "App.ts">>
    ELSE IF cls = "language-tsx" THEN <<SLASH, "App.tsx">>
    ELSE IF cls = "language-css" THEN <<SLASH, "styles.css">>
    ELSE <<>>

DefaultPathFallback(cls) ==
    IF cls = "language-ts" THEN <<SLASH, "App.tsx">>
    ELSE IF cls = "language-tsx" THEN <<SLASH, "App.tsx">>
    ELSE IF cls = "language-css" THEN <<SLASH, "styles.css">>
    ELSE <<SLASH, "App.js">>

\* The language-tag lookup of a block without metastring; <<>> when the
\* chain of comparisons falls through to the throw.
DefaultPath(cls) ==
    IF cls = "language-js" THEN <<SLASH, "App.js">>
    ELSE IF cls = "language-ts" THEN <<SLASH, "App.tsx">>
    ELSE IF cls = "language-tsx" THEN <<SLASH, "App.tsx">>
    ELSE IF cls = "language-css" THEN <<SLASH, "styles.css">>
    ELSE <<>>

\* Slip: the name used as the key, without the leading slash.
FilePathBare(props) ==
    IF Truthy(props.metastring)
    THEN FileName(props.metastring.value)
    ELSE DefaultPath(props.className)

\* filePath of a <pre> block; <<>> stands for "threw before filePath was set".
FilePath(props) ==
    IF Truthy(props.metastring)
    THEN <<SLASH>> \o FileName(props.metastring.value)
    ELSE DefaultPath(props.className)

\* The SandpackFile stored at filePath.
Descriptor(props) ==
    [code   |-> props.code,
     hidden |-> Truthy(props.metastring) /\ FileHidden(props.metastring.value),
     active |-> Truthy(props.metastring) /\ FileActive(props.metastring.value)]

\* Slip: the duplicate check left out.
DefinedNever(files, filePath) == FALSE

\* result[filePath] is truthy: every stored descriptor is an object.
Defined(files, filePath) == filePath \in DOMAIN files

\* result[filePath] = descriptor
Assign(files, filePath, desc) ==
    [p \in DOMAIN files \cup {filePath} |->
        IF p = filePath THEN desc ELSE files[p]]

\* The initial value {} of the reduction.
EmptyFiles == [p \in {} |-> [code |-> "", hidden |-> FALSE, active |-> FALSE]]

-----------------------------------------------------------------------------
(* Input domains. *)

SnippetMetas ==
    {<<"App.tsx">>, <<"util.ts">>, <<"hidden">>,
     <<"util.ts", SP, "hidden">>, <<"App.tsx", SP, "foo">>}

SnippetNodes ==
    {TextNode, OtherNode}
    \cup {PreNode(cls, NoMeta, c) : cls \in ClassNames, c \in Codes}
    \cup {PreNode("language-tsx", Meta(m), c) : m \in SnippetMetas, c \in Codes}

ChildSeqs == UNION {[1..k -> SnippetNodes] : k \in 0..MaxChildren}

BlockClassNames == {"language-tsx", NoClass}

BlockSeqs ==
    {<<PreNode(cls, Meta(m), "c1")>> :
        cls \in BlockClassNames, m \in FenceMetas(MaxMetaLen)}

PassNodes ==
    {OtherNode,
     PreNode("language-tsx", NoMeta, "c1"),
     PreNode("language-ts", NoMeta, "c2"),
     PreNode("language-py", NoMeta, "c1")}

PassSeqs == UNION {[1..k -> PassNodes] : k \in 0..MaxPassChildren}

-----------------------------------------------------------------------------
(* The program. *)

Outcome(status, err, files) == [status |-> status, error |-> err, files |-> files]

Init ==
    /\ children = <<>>
    /\ pc = "idle"
    /\ idx = 1
    /\ result = EmptyFiles
    /\ error = "none"
    /\ history = <<>>

\* Slip: the accumulator of the previous call is used again.
createFileMapShared(c) ==
    /\ children' = c
    /\ idx' = 1
    /\ error' = "none"
    /\ pc' = "reduce"
    /\ UNCHANGED <<result, history>>

\* createFileMap(children): the reduction starts from a fresh {}.
createFileMap(c) ==
    /\ children' = c
    /\ idx' = 1
    /\ result' = EmptyFiles
    /\ error' = "none"
    /\ pc' = "reduce"
    /\ UNCHANGED history

Throw(err) ==
    /\ pc' = "threw"
    /\ error' = err
    /\ history' = Append(history,
                         [children |-> children,
                          outcome |-> Outcome("threw", err, EmptyFiles)])
    /\ UNCHANGED <<children, idx, result>>

\* One call of the reducer callback, on children[idx].
Reducer ==
    /\ pc = "reduce"
    /\ idx <= Len(children)
    /\ LET codeSnippet == children[idx]
       IN  IF codeSnippet.kind = "text"
           THEN Throw("TypeError")
           ELSE IF codeSnippet.mdxType # "pre"
           THEN /\ idx' = idx + 1
                /\ UNCHANGED <<children, pc, result, error, history>>
           ELSE IF FilePath(codeSnippet) = <<>>
           THEN Throw("MissingFilename")
           ELSE IF Defined(result, FilePath(codeSnippet))
           THEN Throw("DuplicatePath")
           ELSE /\ result' = Assign(result, FilePath(codeSnippet),
                                    Descriptor(codeSnippet))
                /\ idx' = idx + 1
                /\ UNCHANGED <<children, pc, error, history>>

\* The reduction is through: createFileMap returns the accumulator.
Return ==
    /\ pc = "reduce"
    /\ idx > Len(children)
    /\ pc' = "returned"
    /\ history' = Append(history,
                         [children |-> children,
                          outcome |-> Outcome("returned", "none", result)])
    /\ UNCHANGED <<children, idx, result, error>>

\* SandpackEditor renders once with the children of one editor.
Render ==
    /\ pc = "idle"
    /\ \E c \in ChildSeqs : createFileMap(c)

\* SandpackEditor renders once with a single named code block.
RenderBlock ==
    /\ pc = "idle"
    /\ \E c \in BlockSeqs : createFileMap(c)

\* SandpackEditor renders again, or another editor of the page renders.
RenderPass ==
    /\ pc \in {"idle", "returned", "threw"}
    /\ Len(history) < MaxPasses
    /\ \E c \in PassSeqs : createFileMap(c)

Next == Render \/ Reducer \/ Return

Spec == Init /\ [][Next]_vars

NextBlock == RenderBlock \/ Reducer \/ Return

SpecBlock == Init /\ [][NextBlock]_vars

NextPasses == RenderPass \/ Reducer \/ Return

SpecPasses == Init /\ [][NextPasses]_vars

-----------------------------------------------------------------------------
(* Type invariant. *)

TypeOK ==
    /\ pc \in {"idle", "reduce", "returned", "threw"}
    /\ idx \in 1..(Len(children) + 1)
    /\ error \in {"none", "TypeError", "MissingFilename", "DuplicatePath"}
    /\ (pc = "threw") = (error # "none")

-----------------------------------------------------------------------------
(* Vocabulary of the properties, stated on the input alone. *)

Final == pc \in {"returned", "threw"}

IsPre(n) == n.kind = "element" /\ n.mdxType = "pre"

Recognized == {"language-js", "language-ts", "language-tsx", "language-css"}

\* The documented lookup from language tag to default path.
LanguagePath ==
    [cls \in Recognized |->
        CASE cls = "language-js" -> <<SLASH, "App.js">>
          [] cls = "language-ts" -> <<SLASH, "App.tsx">>
          [] cls = "language-tsx" -> <<SLASH, "App.tsx">>
          [] cls = "language-css" -> <<SLASH, "styles.css">>]

\* The file name of a metastring: all of it up to its first space.
NameOf(m) ==
    LET n == CHOOSE k \in 0..Len(m) :
                 /\ \A j \in 1..k : m[j] # SP
                 /\ k = Len(m) \/ m[k + 1] = SP
    IN  SubSeq(m, 1, n)

Named(n) == IsPre(n) /\ n.metastring.defined /\ n.metastring.value # <<>>

Untagged(n) == IsPre(n) /\ ~Named(n)

Resolves(n) == Named(n) \/ (Untagged(n) /\ n.className \in Recognized)

PathOf(n) ==
    IF Named(n) THEN <<SLASH>> \o NameOf(n.metastring.value)
    ELSE LanguagePath[n.className]

-----------------------------------------------------------------------------
\* C1: for a sequence of code blocks that all carry a file name, the names
\* pairwise distinct, createFileMap returns a mapping whose keys are exactly
\* the '/' + name of the blocks, one descriptor per block, each holding its
\* block's text unchanged.
AllNamedDistinct ==
    /\ \A i \in 1..Len(children) : Named(children[i])
    /\ \A i, j \in 1..Len(children) :
          i # j => NameOf(children[i].metastring.value)
                     # NameOf(children[j].metastring.value)

C1_NamedBlocks ==
    (Final /\ AllNamedDistinct) =>
        /\ pc = "returned"
        /\ DOMAIN result = {PathOf(children[i]) : i \in 1..Len(children)}
        /\ Cardinality(DOMAIN result) = Len(children)
        /\ \A i \in 1..Len(children) :
              result[PathOf(children[i])].code = children[i].code

C1_Witness ==
    /\ pc = "returned"
    /\ AllNamedDistinct
    /\ Len(children) = 3
    /\ children[1].code # children[2].code

-----------------------------------------------------------------------------
(* Tokens of a metastring, stated on the text alone. *)

SpacesAt(m) == {i \in 1..Len(m) : m[i] = SP}

\* The position of the k-th space of m; 0 and Len(m) + 1 bracket the text.
SpaceNo(m, k) ==
    IF k = 0 THEN 0
    ELSE IF k > Cardinality(SpacesAt(m)) THEN Len(m) + 1
    ELSE CHOOSE i \in SpacesAt(m) :
             Cardinality({j \in SpacesAt(m) : j <= i}) = k

\* The pieces of m between consecutive single spaces (some may be empty).
TokensOf(m) ==
    [k \in 1..(Cardinality(SpacesAt(m)) + 1) |->
        SubSeq(m, SpaceNo(m, k - 1) + 1, SpaceNo(m, k) - 1)]

\* The maximal runs of m free of whitespace (space or tab), as positions.
WsRuns(m) ==
    {r \in (1..Len(m)) \X (1..Len(m)) :
        /\ r[1] <= r[2]
        /\ \A j \in r[1]..r[2] : ~IsWs(m[j])
        /\ r[1] = 1 \/ IsWs(m[r[1] - 1])
        /\ r[2] = Len(m) \/ IsWs(m[r[2] + 1])}

WsFirst(m) == CHOOSE r \in WsRuns(m) : \A q \in WsRuns(m) : r[1] <= q[1]

WsName(m) == SubSeq(m, WsFirst(m)[1], WsFirst(m)[2])

WsFlag(m, flag) ==
    \E r \in WsRuns(m) \ {WsFirst(m)} : SubSeq(m, r[1], r[2]) = <<flag>>

SpaceFlag(m, flag) == \E k \in 2..Len(TokensOf(m)) : TokensOf(m)[k] = <<flag>>

RECURSIVE Join(_)
Join(tokens) ==
    IF Len(tokens) = 1 THEN tokens[1]
    ELSE tokens[1] \o <<SP>> \o Join(Tail(tokens))

\* What a block with class, code of block n and metastring m resolves to.
PathWith(n, m) == FilePath(PreNode(n.className, Meta(m), n.code))

DescriptorWith(n, m) == Descriptor(PreNode(n.className, Meta(m), n.code))

\* Block i was stored as a block with metastring m would be.
StoredAs(i, m) ==
    /\ PathWith(children[i], m) = PathOf(children[i])
    /\ PathOf(children[i]) \in DOMAIN result
    /\ result[PathOf(children[i])] = DescriptorWith(children[i], m)

-----------------------------------------------------------------------------
\* C2 (as stated): the metastring is split on whitespace; the path is '/' +
\* the first token, hidden iff 'hidden' is among the remaining tokens,
\* active iff 'active' is among the remaining tokens.
C2_WhitespaceTokens ==
    \A i \in 1..(idx - 1) :
        Named(children[i]) =>
            LET m == children[i].metastring.value
                p == <<SLASH>> \o WsName(m)
            IN  /\ p \in DOMAIN result
                /\ result[p].hidden = WsFlag(m, "hidden")
                /\ result[p].active = WsFlag(m, "active")

\* C2 (amended): the metastring is split at every single space character
\* (a tab separates nothing, two adjacent spaces enclose an empty token); the
\* path is '/' + the first token, hidden iff 'hidden' is among the remaining
\* tokens, active iff 'active' is among them; 'App.tsx active' gives
\* /App.tsx, hidden=false, active=true and 'util.ts hidden' gives /util.ts,
\* hidden=true, active=false.
C2_SpaceTokens ==
    \A i \in 1..(idx - 1) :
        Named(children[i]) =>
            LET m == children[i].metastring.value
                p == <<SLASH>> \o TokensOf(m)[1]
            IN  /\ p \in DOMAIN result
                /\ result[p].hidden = SpaceFlag(m, "hidden")
                /\ result[p].active = SpaceFlag(m, "active")
                /\ m = <<"App.tsx", SP, "active">> =>
                      /\ p = <<SLASH, "App.tsx">>
                      /\ ~result[p].hidden /\ result[p].active
                /\ m = <<"util.ts", SP, "hidden">> =>
                      /\ p = <<SLASH, "util.ts">>
                      /\ result[p].hidden /\ ~result[p].active

C2_Witness ==
    /\ pc = "returned"
    /\ Len(children) = 1
    /\ Named(children[1])
    /\ children[1].metastring.value = <<"App.tsx", SP, "active">>
    /\ result[<<SLASH, "App.tsx">>].active

-----------------------------------------------------------------------------
\* C3: a code block without metastring gets its path from the language tag
\* (js -> /App.js, ts and tsx -> /App.tsx, css -> /styles.css) and its
\* descriptor has hidden = false and active = false.
C3_DefaultPath ==
    \A i \in 1..(idx - 1) :
        (Untagged(children[i]) /\ children[i].className \in Recognized) =>
            /\ LanguagePath[children[i].className] \in DOMAIN result
            /\ result[LanguagePath[children[i].className]] =
                  [code |-> children[i].code, hidden |-> FALSE, active |-> FALSE]

C3_Witness ==
    /\ pc = "returned"
    /\ \E i, j \in 1..Len(children) :
          /\ Untagged(children[i]) /\ children[i].className = "language-css"
          /\ Untagged(children[j]) /\ children[j].className = "language-ts"

-----------------------------------------------------------------------------
\* C4: when two code blocks resolve to the same path, whether by explicit
\* names or by language defaults, createFileMap does not return a mapping:
\* it has thrown by the time it reaches the second of them, and the error
\* thrown at that block is DuplicatePath; no stored descriptor is ever
\* replaced by a later block's.
SamePath(j, k) ==
    /\ j < k
    /\ Resolves(children[j]) /\ Resolves(children[k])
    /\ PathOf(children[j]) = PathOf(children[k])

-----------------------------------------------------------------------------
\* C5: a code block with no metastring whose language tag is missing or not
\* one of js, ts, tsx, css makes createFileMap throw: no mapping is returned,
\* and the error thrown at that block is MissingFilename.
Nameless(n) == Untagged(n) /\ n.className \notin Recognized

-----------------------------------------------------------------------------
\* C8: tokens after the file name other than 'hidden' and 'active' have no
\* effect: taking such a token out of the metastring, or putting one in
\* after any token, leaves path, hidden, active and code as they are, and a
\* block on its own with such tokens raises no error.
FlagTokens == {<<"hidden">>, <<"active">>}

UnknownTokens == {<<"foo">>, <<>>, <<TAB>>, <<"hidden", "active">>, <<"App.tsx">>}

RemoveAt(tokens, k) ==
    SubSeq(tokens, 1, k - 1) \o SubSeq(tokens, k + 1, Len(tokens))

InsertAfter(tokens, k, t) ==
    SubSeq(tokens, 1, k) \o <<t>> \o SubSeq(tokens, k + 1, Len(tokens))

C8_UnknownTokensIgnored ==
    /\ \A i \in 1..(idx - 1) :
          Named(children[i]) =>
              LET tokens == TokensOf(children[i].metastring.value)
              IN  /\ \A k \in 2..Len(tokens) :
                        tokens[k] \notin FlagTokens =>
                            StoredAs(i, Join(RemoveAt(tokens, k)))
                  /\ \A k \in 1..Len(tokens), t \in UnknownTokens :
                        StoredAs(i, Join(InsertAfter(tokens, k, t)))
    /\ (Len(children) = 1 /\ Named(children[1])) => pc # "threw"

C8_Witness ==
    /\ pc = "returned"
    /\ Len(children) = 1
    /\ children[1].metastring.value = <<"util.ts", SP, "foo", SP, "hidden">>
    /\ result[<<SLASH, "util.ts">>] =
          [code |-> children[1].code, hidden |-> TRUE, active |-> FALSE]

-----------------------------------------------------------------------------
\* C9: the order of the tokens after the file name is irrelevant, and so is
\* their repetition: exchanging two neighbouring ones or repeating one gives
\* the same descriptor; 'App.tsx hidden active' and 'App.tsx active hidden'
\* both give /App.tsx with hidden = true and active = true.
SwapAt(tokens, k) ==
    [tokens EXCEPT ![k] = tokens[k + 1], ![k + 1] = tokens[k]]

C9_FlagOrderIrrelevant ==
    \A i \in 1..(idx - 1) :
        Named(children[i]) =>
            LET m == children[i].metastring.value
                tokens == TokensOf(m)
            IN  /\ \A k \in 2..(Len(tokens) - 1) :
                      StoredAs(i, Join(SwapAt(tokens, k)))
                /\ \A k \in 2..Len(tokens) :
                      StoredAs(i, Join(Append(tokens, tokens[k])))
                /\ m \in {<<"App.tsx", SP, "hidden", SP, "active">>,
                          <<"App.tsx", SP, "active", SP, "hidden">>} =>
                      result[<<SLASH, "App.tsx">>] =
                          [code |-> children[i].code,
                           hidden |-> TRUE, active |-> TRUE]

C9_Witness ==
    /\ pc = "returned"
    /\ Len(children) = 1
    /\ children[1].metastring.value = <<"App.tsx", SP, "active", SP, "hidden">>
    /\ result[<<SLASH, "App.tsx">>].hidden
    /\ result[<<SLASH, "App.tsx">>].active

-----------------------------------------------------------------------------
\* C6: a child that is not a preformatted block wrapper, stray text or an
\* unrelated element, is skipped without error and leaves the mapping under
\* construction as it is: createFileMap never throws at such a child, and
\* the mapping holds the paths of the code blocks passed so far and no
\* other.
C6_NonBlocksSkipped ==
    /\ pc = "threw" => IsPre(children[idx])
    /\ DOMAIN result =
          {PathOf(children[i]) : i \in {j \in 1..(idx - 1) : IsPre(children[j])}}

-----------------------------------------------------------------------------
\* C7: createFileMap fails in exactly two ways, MissingFilename and
\* DuplicatePath, and it fails iff some code block has neither a file name
\* nor a recognized language tag or two code blocks resolve to one path; on
\* every other input it returns a mapping.
C7_TwoFailures ==
    Final =>
        /\ (pc = "threw") <=>
              \/ \E k \in 1..Len(children) : Nameless(children[k])
              \/ \E j, k \in 1..Len(children) : SamePath(j, k)
        /\ pc = "threw" => error \in {"MissingFilename", "DuplicatePath"}
        /\ pc = "returned" => error = "none"

-----------------------------------------------------------------------------
\* C10: every call of createFileMap starts from an empty mapping and its
\* outcome depends on its own children only: two calls with equal children
\* have equal outcomes, a mapping holds only paths of its own children, and
\* DuplicatePath is thrown only for two blocks of the same call.
C10_FreshAndPure ==
    /\ (pc = "reduce" /\ idx = 1) => result = EmptyFiles
    /\ \A i, j \in 1..Len(history) :
          history[i].children = history[j].children
              => history[i].outcome = history[j].outcome
    /\ DOMAIN result \subseteq
          {PathOf(children[i]) :
              i \in {j \in 1..Len(children) : Resolves(children[j])}}
    /\ error = "DuplicatePath" => \E j, k \in 1..Len(children) : SamePath(j, k)

C10_Witness ==
    /\ Len(history) = 2
    /\ history[1].children = history[2].children
    /\ history[2].outcome.status = "returned"
    /\ Cardinality(DOMAIN history[2].outcome.files) = 1
    /\ Len(children) = 2

-----------------------------------------------------------------------------
\* C11: blocks are processed in authoring order and processing stops at the
\* first offending block: on an input with offending blocks the error
\* raised is the one of the earliest of them, and a block with no
\* metastring and no recognized language tag raises MissingFilename, never
\* DuplicatePath.
Offending(k) ==
    \/ Nameless(children[k])
    \/ \E j \in 1..(k - 1) : SamePath(j, k)

Offenders == {k \in 1..Len(children) : Offending(k)}

FirstOffender == CHOOSE k \in Offenders : \A q \in Offenders : k <= q

C11_EarliestOffender ==
    /\ (Final /\ Offenders # {}) =>
          /\ pc = "threw"
          /\ idx = FirstOffender
          /\ error = IF Nameless(children[FirstOffender])
                     THEN "MissingFilename" ELSE "DuplicatePath"
    /\ (pc = "threw" /\ Nameless(children[idx])) => error = "MissingFilename"

-----------------------------------------------------------------------------
\* C12: the first token of a metastring is the file name and never a flag:
\* 'hidden' alone gives path /hidden and 'active App.tsx' gives /active,
\* neither flag set; hidden and active are set exactly by a 'hidden' or
\* 'active' at token position two or later.
C12_FirstTokenIsName ==
    \A i \in 1..(idx - 1) :
        Named(children[i]) =>
            LET m == children[i].metastring.value
                tokens == TokensOf(m)
                p == <<SLASH>> \o tokens[1]
                later == {tokens[k] : k \in 2..Len(tokens)}
            IN  /\ p \in DOMAIN result
                /\ tokens[1] \in FlagTokens => p = <<SLASH, m[1]>>
                /\ result[p].hidden <=> <<"hidden">> \in later
                /\ result[p].active <=> <<"active">> \in later
                /\ m = <<"hidden">> =>
                      /\ p = <<SLASH, "hidden">>
                      /\ result[p] = [code |-> children[i].code,
                                      hidden |-> FALSE, active |-> FALSE]
                /\ m = <<"active", SP, "App.tsx">> =>
                      /\ p = <<SLASH, "active">>
                      /\ result[p] = [code |-> children[i].code,
                                      hidden |-> FALSE, active |-> FALSE]

C12_Witness ==
    /\ pc = "returned"
    /\ Len(children) = 1
    /\ children[1].metastring.value = <<"active", SP, "App.tsx">>
    /\ DOMAIN result = {<<SLASH, "active">>}
    /\ ~result[<<SLASH, "active">>].active

====
